---- MODULE Spec2Model ----
(***************************************************************************)
(* Model of the DataPipeline data simulators.                              *)
(*                                                                         *)
(*   variant = "cli"     src/src/data_simulator.py            DataSimulator *)
(*   variant = "lambda"  src/src/simulator/data_simulator.py  DataSimulator *)
(*                                                                         *)
(* Time is an integer clock.  In the cli variant one unit is the 0.5 s     *)
(* poll of simulate_data; in the lambda variant one unit is one second.    *)
(* A record is represented by the ordinal of the generate_data call that   *)
(* produced it.                                                            *)
(***************************************************************************)
EXTENDS Integers, Sequences, FiniteSets, TLC

\* ------------------------------------------------------------------ bounds
MaxTime == 6           \* cli: the clock stops here unless SIGINT has come
MaxOver == 1           \* a sleep may overrun by up to this many units
MaxFlushDur == 1       \* a sink call takes up to this many units
MaxDataInterval == 2   \* cli: data_interval ranges over 1..MaxDataInterval
MaxFileInterval == 3   \* cli: file_interval ranges over 1..MaxFileInterval

\* ------------------------------------------------------- program constants
PollSleep == 1         \* time.sleep(0.5): the cli time unit
LambdaBudget == 300    \* remaining_time = 300 - elapsed when no context
StopMargin == 15       \* if remaining_time < 15: break
LambdaIntervals == {20, 100}
ContextBudgets == {StopMargin - 1, StopMargin, StopMargin + 25, StopMargin + 45}

VARIABLES
    variant,          \* which of the two DataSimulator classes runs
    local_enabled,    \* cli: self.local_enabled
    s3_enabled,       \* cli: self.s3_enabled (s3_utils is set iff s3_enabled)
    data_interval,    \* argument of simulate_data
    file_interval,    \* cli: argument of simulate_data
    has_context,      \* lambda: simulate_data was given a context
    deadline,         \* lambda: clock value at which the context's budget ends
    stop_signal,      \* self.stop_signal
    data_feed,        \* self.data_feed
    pc,               \* position of simulate_data
    final,            \* the loop of simulate_data has been left
    now,              \* the clock read by time.time()
    start_time,       \* local of simulate_data
    last_data_time,   \* cli: local of simulate_data
    current_time,     \* cli: local of simulate_data
    nextId,           \* ordinal of the next generated record
    calls,            \* every batch handed to a sink, in order
    flushPre,         \* data_feed at the entry of each _store_data call
    flushEnd,         \* how each _store_data call ended
    gensAfterStop,    \* records appended since stop_signal became True
    sinceFlush,       \* records appended since data_feed was last reset
    exitAt,           \* what the loop had done when it was left
    lastReturn,       \* cli: clock value when the loop started or the last
                      \* periodic _store_data returned
    iter,             \* cli: what the current iteration has done so far
    flushNoAtStop,    \* number of _store_data calls begun when SIGINT came
    exact,            \* every sleep so far took one unit, every sink call none
    gen,              \* generate_data: the random draws and the record made
    i_variant,        \* the ingester: "processor" or "aws_lambda"
    event,            \* the event handed to lambda_handler
    ipc,              \* where lambda_handler is
    idx,              \* entries of event["Records"] taken so far
    processed,        \* the process_s3_event calls so far: <<bucket, key>>
    content,          \* what read_s3_file returned for the current object
    ridx,             \* records of the current file passed to the store
    attempts,         \* the store_in_dynamodb calls of the current file
    table,            \* the DynamoDB table: a set of items
    tableBefore,      \* the table when the current file was read
    expected,         \* keys of the well-formed records of the files read
    stored,           \* keys of the records whose put_item succeeded
    clean,            \* no read and no store has failed so far
    failures          \* DynamoDB errors so far

vars == <<variant, local_enabled, s3_enabled, data_interval, file_interval,
          has_context, deadline, stop_signal, data_feed, pc, final, now,
          start_time, last_data_time, current_time, nextId, calls, flushPre,
          flushEnd, gensAfterStop, sinceFlush, exitAt, lastReturn, iter,
          flushNoAtStop, exact, gen, i_variant, event, ipc, idx, processed,
          content, ridx, attempts, table, tableBefore, expected, stored,
          clean, failures>>

\* the state of the ingester
ingestVars == <<i_variant, event, ipc, idx, processed, content, ridx, attempts,
                table, tableBefore, expected, stored, clean, failures>>

\* the state of the simulators
simVars == <<variant, local_enabled, s3_enabled, data_interval, file_interval,
             has_context, deadline, stop_signal, data_feed, pc, final, now,
             start_time, last_data_time, current_time, nextId, calls, flushPre,
             flushEnd, gensAfterStop, sinceFlush, exitAt, lastReturn, iter,
             flushNoAtStop, exact>>

\* the state that no step of the simulators touches
others == <<gen, ingestVars>>

params == <<variant, local_enabled, s3_enabled, data_interval, file_interval,
            has_context, deadline>>

\* ----------------------------------------------------------------- helpers
Range(s) == {s[i] : i \in DOMAIN s}

\* Outcomes of open()/json.dump in save_data_locally: no handler in the code.
LocalOutcomes == {"ok", "os_error"}

\* Outcomes of put_object in upload_json_data: success, ClientError (caught,
\* returns False), any other exception such as NoCredentialsError or
\* EndpointConnectionError (BotoCoreError, not caught).
S3Outcomes == {"ok", "client_error", "botocore_error"}

\* except ClientError: ... return False
Caught(outcome) == outcome \in {"ok", "client_error"}

\* upload_json_data's return value
UploadReturns(outcome) == outcome = "ok"

\* mutant: the comparison made strict
DataDue_Strict(cur, last, interval) == cur - last > interval

\* if current_time - last_data_time >= data_interval
DataDue(cur, last, interval) == cur - last >= interval

\* if current_time - start_time >= file_interval
FileDue(cur, start, interval) == cur - start >= interval

\* mutant: the new record replaces the buffer
AppendRecord_Replace(feed, rec) == <<rec>>

\* self.data_feed.append(generate_data())
AppendRecord(feed, rec) == Append(feed, rec)

\* mutant: the local sink is always skipped
LocalSkips_Always(feed) == TRUE

\* mutant: the emptiness test is missing
LocalSkips_Never(feed) == FALSE

\* if not self.data_feed: return          (save_data_locally)
LocalSkips(feed) == feed = <<>>

\* if not self.data_feed or not self.s3_utils: return   (upload_data_to_s3)
S3Skips(feed, s3_utils) == feed = <<>> \/ ~s3_utils

\* if not self.data_feed: return          (lambda _store_data)
LambdaSkips(feed) == feed = <<>>

\* mutant: the buffer is never cleared
FeedAfterStore_Keep(feed, uploaded) == feed

\* mutant: the buffer is cleared only when the upload succeeded
FeedAfterStore_KeepOnFailure(feed, uploaded) == IF uploaded THEN <<>> ELSE feed

\* self.data_feed = [] at the end of _store_data, whatever the sinks returned
FeedAfterStore(feed, uploaded) == <<>>

\* a sink call as recorded in the history
Call(sink, batch, res, flush) ==
    [sink |-> sink, batch |-> batch, res |-> res, flush |-> flush]

\* remaining_time of the lambda loop
RemainingTime(ctx, dl, t, start) ==
    IF ctx THEN dl - t ELSE LambdaBudget - (t - start)

\* if remaining_time < 15: break
MustStop(remaining) == remaining < StopMargin

flushNo == Len(flushPre)

Running == pc \notin {"done", "crashed"}

\* ----------------------------------------------------------- generate_data
\* Energy values are integers in thousandths of a kWh, so that round(x, 2)
\* has something to round; a rounded value is a multiple of 10.

FaultPercent == 10     \* if random.random() < 0.1, in percent

\* round(x, 2) on a value in thousandths: to the nearest hundredth, a tie to
\* the even hundredth
Round2(x) ==
    LET q == x \div 10
        r == x % 10
    IN  IF r < 5 THEN 10 * q
        ELSE IF r > 5 THEN 10 * (q + 1)
        ELSE IF q % 2 = 0 THEN 10 * q ELSE 10 * (q + 1)

\* values random.uniform(10, 200) can return
UniformGenerated == {10000, 10004, 104996, 199996, 200000}

\* values random.uniform(5, 180) can return
UniformConsumed == {5000, 5004, 92506, 179996, 180000}

\* values random.uniform(-2, 0) can return
UniformFault == {-2000, -1996, -1004, -6, -4}

\* values random.random() can return, in percent
RandomPercent == {9, 10}

\* values random.randint(1, 100) can return
SiteNumbers == {1, 100}

\* if random.random() < 0.1
FaultFires(p) == p < FaultPercent

\* the draws of one generate_data call
Draws ==
    [site : SiteNumbers, g : UniformGenerated, c : UniformConsumed,
     pg : RandomPercent, fg : UniformFault,
     pc : RandomPercent, fc : UniformFault]

\* generate_data of src/src/data_simulator.py: no fault injection
GenerateDataCli(d) ==
    [site_id |-> <<"SITECA", d.site>>,
     energy_generated_kwh |-> Round2(d.g),
     energy_consumed_kwh |-> Round2(d.c)]

\* DataSimulator.generate_data of src/src/simulator/data_simulator.py
GenerateDataLambda(d) ==
    [site_id |-> <<"SITECA", d.site>>,
     energy_generated_kwh |-> IF FaultFires(d.pg) THEN Round2(d.fg)
                                                  ELSE Round2(d.g),
     energy_consumed_kwh |-> IF FaultFires(d.pc) THEN Round2(d.fc)
                                                 ELSE Round2(d.c)]

NoRecord == [site_id |-> <<"SITECA", 0>>, energy_generated_kwh |-> 0,
             energy_consumed_kwh |-> 0]

NoDraws == [site |-> 1, g |-> 10000, c |-> 5000, pg |-> 10, fg |-> -2000,
            pc |-> 10, fc |-> -2000]

\* generate_data is not under study
GenOff == [at |-> "off", variant |-> "cli", draws |-> NoDraws, rec |-> NoRecord]

\* ------------------------------------------------------------- the ingester
MaxEntries == 2     \* entries of event["Records"]
MaxRecords == 2     \* records of one file
MaxFailures == 1    \* DynamoDB errors in one run

SeqsUpTo(S, n) == UNION {[1..k -> S] : k \in 0..n}

\* The records a file can hold, energies in thousandths of a kWh; ok is
\* FALSE for a record that lacks one of the four keys store_in_dynamodb reads.
RecordPool ==
    {[ok |-> TRUE, site_id |-> "SITECA001", timestamp |-> 1,
      energy_generated_kwh |-> 120000, energy_consumed_kwh |-> 90000],
     [ok |-> TRUE, site_id |-> "SITECA002", timestamp |-> 1,
      energy_generated_kwh |-> 1234, energy_consumed_kwh |-> 3490],
     [ok |-> TRUE, site_id |-> "SITECA001", timestamp |-> 1,
      energy_generated_kwh |-> -500, energy_consumed_kwh |-> 2000],
     [ok |-> FALSE, site_id |-> "SITECA002", timestamp |-> 2,
      energy_generated_kwh |-> 0, energy_consumed_kwh |-> 0]}

\* What read_s3_file can return: the parsed array, or None
Contents ==
    {[readable |-> TRUE, records |-> r] : r \in SeqsUpTo(RecordPool, MaxRecords)}
        \cup {[readable |-> FALSE, records |-> <<>>]}

NoContent == [readable |-> FALSE, records |-> <<>>]

\* The entries event["Records"] can hold; ok is FALSE for an entry that
\* lacks the s3 / bucket / object keys.
EntryPool ==
    {[ok |-> TRUE, bucket |-> "bucket", key |-> "a.json"],
     [ok |-> TRUE, bucket |-> "bucket", key |-> "b.json"],
     [ok |-> FALSE, bucket |-> "bucket", key |-> "a.json"]}

Events ==
    {[has_records |-> TRUE, entries |-> e] : e \in SeqsUpTo(EntryPool, MaxEntries)}
        \cup {[has_records |-> FALSE, entries |-> <<>>]}

KeyOf(r) == <<r.site_id, r.timestamp>>

\* formatted_data of store_in_dynamodb. decimal.Decimal(str(x)) keeps the
\* value of x; only the processor variant rounds the difference.
FormatItem(v, r) ==
    LET net == r.energy_generated_kwh - r.energy_consumed_kwh IN
    [site_id |-> r.site_id,
     timestamp |-> r.timestamp,
     energy_generated_kwh |-> r.energy_generated_kwh,
     energy_consumed_kwh |-> r.energy_consumed_kwh,
     net_energy_kwh |-> IF v = "processor" THEN Round2(net) ELSE net,
     anomaly |-> (r.energy_generated_kwh < 0 \/ r.energy_consumed_kwh < 0)]

PutItem_ReplacesTable(t, item) == {item}

\* table.put_item: the item replaces the one with the same key
PutItem(t, item) == {i \in t : KeyOf(i) # KeyOf(item)} \cup {item}

\* the ingester is not under study
IngestOff ==
    /\ i_variant = "processor"
    /\ event = [has_records |-> FALSE, entries |-> <<>>]
    /\ ipc = "off"
    /\ idx = 0
    /\ processed = <<>>
    /\ content = NoContent
    /\ ridx = 0
    /\ attempts = <<>>
    /\ table = {}
    /\ tableBefore = {}
    /\ expected = {}
    /\ stored = {}
    /\ clean = TRUE
    /\ failures = 0

\* -------------------------------------------------------------------- Init
Init ==
    /\ variant \in {"cli", "lambda"}
    /\ IF variant = "cli"
         THEN /\ local_enabled \in BOOLEAN
              /\ s3_enabled \in BOOLEAN
              /\ data_interval \in 1..MaxDataInterval
              /\ file_interval \in 1..MaxFileInterval
              /\ has_context = FALSE
              /\ deadline = 0
         ELSE /\ local_enabled = FALSE
              /\ s3_enabled = TRUE
              /\ data_interval \in LambdaIntervals
              /\ file_interval = 0
              /\ has_context \in BOOLEAN
              /\ IF has_context THEN deadline \in ContextBudgets
                                ELSE deadline = 0
    /\ stop_signal = FALSE
    /\ data_feed = <<>>
    /\ pc = "start"
    /\ final = FALSE
    /\ now = 0
    /\ start_time = 0
    /\ last_data_time = 0
    /\ current_time = 0
    /\ nextId = 1
    /\ calls = <<>>
    /\ flushPre = <<>>
    /\ flushEnd = <<>>
    /\ gensAfterStop = 0
    /\ sinceFlush = 0
    /\ exitAt = [flushes |-> 0, gens |-> 0, feed |-> <<>>]
    /\ lastReturn = 0
    /\ iter = [gen |-> 0, flushed |-> FALSE]
    /\ flushNoAtStop = 0
    /\ exact = TRUE
    /\ gen = GenOff
    /\ IngestOff

\* ----------------------------------------------------------- both variants
\* mutant: the handler also empties the buffer
SignalHandler_ClearsFeed ==
    /\ Running
    /\ ~stop_signal
    /\ stop_signal' = TRUE
    /\ data_feed' = <<>>
    /\ UNCHANGED <<others, params, pc, final, now, start_time,
                   last_data_time, current_time, nextId, calls, flushPre,
                   flushEnd, gensAfterStop, sinceFlush, exitAt, exact,
                   lastReturn, iter>>
    /\ flushNoAtStop' = flushNo

\* signal_handler / _signal_handler: self.stop_signal = True
SignalHandler ==
    /\ Running
    /\ ~stop_signal
    /\ stop_signal' = TRUE
    /\ UNCHANGED <<others, params, data_feed, pc, final, now, start_time,
                   last_data_time, current_time, nextId, calls, flushPre,
                   flushEnd, gensAfterStop, sinceFlush, exitAt, exact,
                   lastReturn, iter>>
    /\ flushNoAtStop' = flushNo

\* ------------------------------------------------------------- cli variant
\* start_time = time.time(); last_data_time = start_time
Start ==
    /\ variant = "cli"
    /\ pc = "start"
    /\ start_time' = now
    /\ last_data_time' = now
    /\ pc' = "check"
    /\ UNCHANGED <<others, params, stop_signal, data_feed, final, now, current_time,
                   nextId, calls, flushPre, flushEnd, gensAfterStop,
                   sinceFlush, exitAt, exact,
                   iter, flushNoAtStop>>
    /\ lastReturn' = now

\* mutant: the loop is left without the final _store_data
LoopCheck_SkipsFinalStore ==
    /\ pc = "check"
    /\ IF stop_signal
         THEN /\ final' = TRUE
              /\ pc' = "done"
              /\ exitAt' = [flushes |-> flushNo, gens |-> nextId - 1,
                            feed |-> data_feed]
              /\ UNCHANGED current_time
         ELSE /\ current_time' = now
              /\ pc' = "gen"
              /\ UNCHANGED <<final, exitAt>>
    /\ UNCHANGED <<others, params, stop_signal, data_feed, now, start_time,
                   last_data_time, nextId, calls, flushPre, flushEnd,
                   gensAfterStop, sinceFlush, exact,
                   lastReturn, flushNoAtStop>>
    /\ iter' = [gen |-> 0, flushed |-> FALSE]

\* while not self.stop_signal: current_time = time.time()
\* (when the flag is set the loop is left and the final _store_data is next)
LoopCheck ==
    /\ pc = "check"
    /\ IF stop_signal
         THEN /\ final' = TRUE
              /\ pc' = "store"
              /\ exitAt' = [flushes |-> flushNo, gens |-> nextId - 1,
                            feed |-> data_feed]
              /\ UNCHANGED current_time
         ELSE /\ current_time' = now
              /\ pc' = "gen"
              /\ UNCHANGED <<final, exitAt>>
    /\ UNCHANGED <<others, params, stop_signal, data_feed, now, start_time,
                   last_data_time, nextId, calls, flushPre, flushEnd,
                   gensAfterStop, sinceFlush, exact,
                   lastReturn, flushNoAtStop>>
    /\ iter' = [gen |-> 0, flushed |-> FALSE]

\* if current_time - last_data_time >= data_interval: append, remember time
Generate ==
    /\ pc = "gen"
    /\ IF DataDue(current_time, last_data_time, data_interval)
         THEN /\ data_feed' = AppendRecord(data_feed, nextId)
              /\ nextId' = nextId + 1
              /\ last_data_time' = current_time
              /\ sinceFlush' = sinceFlush + 1
              /\ gensAfterStop' = IF stop_signal THEN gensAfterStop + 1
                                                 ELSE gensAfterStop
         ELSE UNCHANGED <<data_feed, nextId, last_data_time, gensAfterStop,
                          sinceFlush>>
    /\ pc' = "fcheck"
    /\ UNCHANGED <<others, params, stop_signal, final, now, start_time, current_time,
                   calls, flushPre, flushEnd, exitAt, exact,
                   lastReturn, flushNoAtStop>>
    /\ iter' = IF DataDue(current_time, last_data_time, data_interval)
                THEN [iter EXCEPT !.gen = nextId] ELSE iter

\* if current_time - start_time >= file_interval: self._store_data() ...
FlushCheck ==
    /\ pc = "fcheck"
    /\ pc' = IF FileDue(current_time, start_time, file_interval)
               THEN "store" ELSE "sleep"
    /\ UNCHANGED <<others, params, stop_signal, data_feed, final, now, start_time,
                   last_data_time, current_time, nextId, calls, flushPre,
                   flushEnd, gensAfterStop, sinceFlush, exitAt, exact,
                   lastReturn, iter, flushNoAtStop>>

\* mutant: the flag is not polled after the sleep
Sleep_SkipsCheck ==
    /\ pc = "sleep"
    /\ \E d \in 0..MaxOver :
         /\ stop_signal \/ now + PollSleep + d <= MaxTime
         /\ now' = now + PollSleep + d
         /\ exact' = (exact /\ d = 0)
    /\ current_time' = now'
    /\ pc' = "gen"
    /\ iter' = [gen |-> 0, flushed |-> FALSE]
    /\ UNCHANGED <<others, params, stop_signal, data_feed, final, start_time,
                   last_data_time, nextId, calls, flushPre,
                   flushEnd, gensAfterStop, sinceFlush, exitAt,
                   lastReturn, flushNoAtStop>>

\* time.sleep(0.5)
Sleep ==
    /\ pc = "sleep"
    /\ \E d \in 0..MaxOver :
         /\ stop_signal \/ now + PollSleep + d <= MaxTime
         /\ now' = now + PollSleep + d
         /\ exact' = (exact /\ d = 0)
    /\ pc' = "check"
    /\ UNCHANGED <<others, params, stop_signal, data_feed, final, start_time,
                   last_data_time, current_time, nextId, calls, flushPre,
                   flushEnd, gensAfterStop, sinceFlush, exitAt,
                   lastReturn, iter, flushNoAtStop>>

\* _store_data, first half: if self.local_enabled: self.save_data_locally()
StoreLocal ==
    /\ pc = "store"
    /\ flushPre' = Append(flushPre, data_feed)
    /\ IF local_enabled /\ ~LocalSkips(data_feed)
         THEN \E o \in LocalOutcomes, d \in 0..MaxFlushDur :
                /\ d = 0 \/ now + d <= MaxTime
                /\ now' = now + d
                /\ exact' = (exact /\ d = 0)
                /\ calls' = Append(calls, Call("local", data_feed, o, flushNo + 1))
                /\ IF o = "ok"
                     THEN pc' = "upload" /\ UNCHANGED flushEnd
                     ELSE pc' = "crashed" /\ flushEnd' = Append(flushEnd, "raised")
         ELSE /\ pc' = "upload"
              /\ UNCHANGED <<now, exact, calls, flushEnd>>
    /\ UNCHANGED <<others, params, stop_signal, data_feed, final, start_time,
                   last_data_time, current_time, nextId, gensAfterStop,
                   sinceFlush, exitAt,
                   lastReturn, flushNoAtStop>>
    /\ iter' = [iter EXCEPT !.flushed = TRUE]

\* _store_data, second half: if self.s3_enabled: self.upload_data_to_s3();
\* self.data_feed = []
StoreS3 ==
    /\ pc = "upload"
    /\ \E o \in S3Outcomes, d \in 0..MaxFlushDur :
         LET called == s3_enabled /\ ~S3Skips(data_feed, s3_enabled)
             res    == IF called THEN o ELSE "ok"
             dur    == IF called THEN d ELSE 0
         IN  /\ called \/ (o = "ok" /\ d = 0)
             /\ dur = 0 \/ now + dur <= MaxTime
             /\ now' = now + dur
             /\ exact' = (exact /\ dur = 0)
             /\ calls' = IF called
                           THEN Append(calls, Call("s3", data_feed, o, flushNo))
                           ELSE calls
             /\ IF Caught(res)
                  THEN /\ data_feed' = FeedAfterStore(data_feed, UploadReturns(res))
                       /\ sinceFlush' = 0
                       /\ flushEnd' = Append(flushEnd,
                                        IF UploadReturns(res) THEN "ok" ELSE "failed")
                       /\ pc' = IF final THEN "done" ELSE "restart"
                       /\ lastReturn' = now'
                  ELSE /\ pc' = "crashed"
                       /\ flushEnd' = Append(flushEnd, "raised")
                       /\ UNCHANGED <<data_feed, sinceFlush, lastReturn>>
    /\ UNCHANGED <<others, params, stop_signal, final, start_time, last_data_time,
                   current_time, nextId, flushPre, gensAfterStop, exitAt,
                   iter, flushNoAtStop>>

\* mutant: the interval is counted from the poll that began the flush
RestartTimer_FromPoll ==
    /\ pc = "restart"
    /\ start_time' = current_time
    /\ pc' = "sleep"
    /\ UNCHANGED <<others, params, stop_signal, data_feed, final, now, last_data_time,
                   current_time, nextId, calls, flushPre, flushEnd,
                   gensAfterStop, sinceFlush, exitAt, exact,
                   lastReturn, iter, flushNoAtStop>>

\* start_time = time.time() once the periodic _store_data has returned
RestartTimer ==
    /\ pc = "restart"
    /\ start_time' = now
    /\ pc' = "sleep"
    /\ UNCHANGED <<others, params, stop_signal, data_feed, final, now, last_data_time,
                   current_time, nextId, calls, flushPre, flushEnd,
                   gensAfterStop, sinceFlush, exitAt, exact,
                   lastReturn, iter, flushNoAtStop>>

\* ---------------------------------------------------------- lambda variant
\* self.data_feed = []; start_time = time.time()
LambdaStart ==
    /\ variant = "lambda"
    /\ pc = "start"
    /\ data_feed' = <<>>
    /\ sinceFlush' = 0
    /\ start_time' = now
    /\ pc' = "l_check"
    /\ UNCHANGED <<others, params, stop_signal, final, now, last_data_time,
                   current_time, nextId, calls, flushPre, flushEnd,
                   gensAfterStop, exitAt, exact,
                   lastReturn, iter, flushNoAtStop>>

\* while True: remaining_time = ...; if remaining_time < 15: break
LambdaCheck ==
    /\ pc = "l_check"
    /\ IF MustStop(RemainingTime(has_context, deadline, now, start_time))
         THEN /\ final' = TRUE
              /\ pc' = "l_store"
              /\ exitAt' = [flushes |-> flushNo, gens |-> nextId - 1,
                            feed |-> data_feed]
         ELSE /\ pc' = "l_gen"
              /\ UNCHANGED <<final, exitAt>>
    /\ UNCHANGED <<others, params, stop_signal, data_feed, now, start_time,
                   last_data_time, current_time, nextId, calls, flushPre,
                   flushEnd, gensAfterStop, sinceFlush, exact,
                   lastReturn, iter, flushNoAtStop>>

\* data = self.generate_data(); self.data_feed.append(data)
LambdaGenerate ==
    /\ pc = "l_gen"
    /\ data_feed' = AppendRecord(data_feed, nextId)
    /\ nextId' = nextId + 1
    /\ sinceFlush' = sinceFlush + 1
    /\ gensAfterStop' = IF stop_signal THEN gensAfterStop + 1 ELSE gensAfterStop
    /\ pc' = "l_sleep"
    /\ UNCHANGED <<others, params, stop_signal, final, now, start_time, last_data_time,
                   current_time, calls, flushPre, flushEnd, exitAt, exact,
                   lastReturn, iter, flushNoAtStop>>

\* time.sleep(data_interval)
LambdaSleep ==
    /\ pc = "l_sleep"
    /\ \E d \in 0..MaxOver :
         /\ now' = now + data_interval + d
         /\ exact' = (exact /\ d = 0)
    /\ pc' = "l_check"
    /\ UNCHANGED <<others, params, stop_signal, data_feed, final, start_time,
                   last_data_time, current_time, nextId, calls, flushPre,
                   flushEnd, gensAfterStop, sinceFlush, exitAt,
                   lastReturn, iter, flushNoAtStop>>

\* _store_data of the lambda variant
LambdaStoreData ==
    /\ pc = "l_store"
    /\ flushPre' = Append(flushPre, data_feed)
    /\ IF LambdaSkips(data_feed)
         THEN /\ pc' = "done"
              /\ flushEnd' = Append(flushEnd, "ok")
              /\ UNCHANGED <<data_feed, calls, sinceFlush>>
         ELSE \E o \in S3Outcomes :
                /\ calls' = Append(calls, Call("s3", data_feed, o, flushNo + 1))
                /\ IF Caught(o)
                     THEN /\ data_feed' = FeedAfterStore(data_feed, UploadReturns(o))
                          /\ sinceFlush' = 0
                          /\ flushEnd' = Append(flushEnd,
                                           IF UploadReturns(o) THEN "ok" ELSE "failed")
                          /\ pc' = "done"
                     ELSE /\ pc' = "crashed"
                          /\ flushEnd' = Append(flushEnd, "raised")
                          /\ UNCHANGED <<data_feed, sinceFlush>>
    /\ UNCHANGED <<others, params, stop_signal, final, now, start_time, last_data_time,
                   current_time, nextId, gensAfterStop, exitAt, exact,
                   lastReturn, iter, flushNoAtStop>>

\* -------------------------------------------------------------------- Next
Next ==
    \/ SignalHandler
    \/ Start
    \/ LoopCheck
    \/ Generate
    \/ FlushCheck
    \/ Sleep
    \/ StoreLocal
    \/ StoreS3
    \/ RestartTimer
    \/ LambdaStart
    \/ LambdaCheck
    \/ LambdaGenerate
    \/ LambdaSleep
    \/ LambdaStoreData

Spec == Init /\ [][Next]_vars

\* a step of the cli simulate_data: the interpreter keeps executing it, and
\* every sink call returns or raises
LoopStep ==
    \/ Start
    \/ LoopCheck
    \/ Generate
    \/ FlushCheck
    \/ Sleep
    \/ StoreLocal
    \/ StoreS3
    \/ RestartTimer

FairSpec == Spec /\ WF_vars(LoopStep)

\* ------------------------------------------------- generate_data on its own
\* the simulators are not running
SimOff ==
    /\ variant = "cli"
    /\ local_enabled = FALSE
    /\ s3_enabled = FALSE
    /\ data_interval = 1
    /\ file_interval = 1
    /\ has_context = FALSE
    /\ deadline = 0
    /\ stop_signal = FALSE
    /\ data_feed = <<>>
    /\ pc = "off"
    /\ final = FALSE
    /\ now = 0
    /\ start_time = 0
    /\ last_data_time = 0
    /\ current_time = 0
    /\ nextId = 1
    /\ calls = <<>>
    /\ flushPre = <<>>
    /\ flushEnd = <<>>
    /\ gensAfterStop = 0
    /\ sinceFlush = 0
    /\ exitAt = [flushes |-> 0, gens |-> 0, feed |-> <<>>]
    /\ lastReturn = 0
    /\ iter = [gen |-> 0, flushed |-> FALSE]
    /\ flushNoAtStop = 0
    /\ exact = TRUE

InitGen ==
    /\ SimOff
    /\ IngestOff
    /\ \E d \in Draws, v \in {"cli", "lambda"} :
         /\ v = "cli" => (d.pg = NoDraws.pg /\ d.fg = NoDraws.fg
                            /\ d.pc = NoDraws.pc /\ d.fc = NoDraws.fc)
         /\ gen = [at |-> "call", variant |-> v, draws |-> d, rec |-> NoRecord]

\* a call of the module-level generate_data
CallGenerateDataCli ==
    /\ gen.at = "call"
    /\ gen.variant = "cli"
    /\ gen' = [gen EXCEPT !.at = "returned",
                          !.rec = GenerateDataCli(gen.draws)]
    /\ UNCHANGED <<simVars, ingestVars>>

\* a call of DataSimulator.generate_data
CallGenerateDataLambda ==
    /\ gen.at = "call"
    /\ gen.variant = "lambda"
    /\ gen' = [gen EXCEPT !.at = "returned",
                          !.rec = GenerateDataLambda(gen.draws)]
    /\ UNCHANGED <<simVars, ingestVars>>

NextGen ==
    \/ CallGenerateDataCli
    \/ CallGenerateDataLambda

SpecGen == InitGen /\ [][NextGen]_vars

\* ------------------------------------------------- the ingester on its own
InitIngest ==
    /\ SimOff
    /\ gen = GenOff
    /\ i_variant \in {"processor", "aws_lambda"}
    /\ event \in Events
    /\ ipc = "start"
    /\ idx = 0
    /\ processed = <<>>
    /\ content = NoContent
    /\ ridx = 0
    /\ attempts = <<>>
    /\ table = {}
    /\ tableBefore = {}
    /\ expected = {}
    /\ stored = {}
    /\ clean = TRUE
    /\ failures = 0

\* lambda_handler reads event["Records"]; a KeyError is logged
LambdaHandler ==
    /\ ipc = "start"
    /\ ipc' = IF event.has_records THEN "loop" ELSE "returned"
    /\ UNCHANGED <<i_variant, event, idx, processed, content, ridx, attempts,
                   table, tableBefore, expected, stored, clean, failures>>
    /\ UNCHANGED <<simVars, gen>>

NextEntry_StopsAfterFirst ==
    /\ ipc = "loop"
    /\ IF idx = Len(event.entries) \/ idx >= 1
         THEN /\ ipc' = "returned"
              /\ UNCHANGED <<idx, processed>>
         ELSE LET e == event.entries[idx + 1] IN
              IF e.ok
                THEN /\ idx' = idx + 1
                     /\ processed' = Append(processed, <<e.bucket, e.key>>)
                     /\ ipc' = "read"
                ELSE /\ ipc' = "returned"
                     /\ UNCHANGED <<idx, processed>>
    /\ UNCHANGED <<i_variant, event, content, ridx, attempts, table,
                   tableBefore, expected, stored, clean, failures>>
    /\ UNCHANGED <<simVars, gen>>

NextEntry_SkipsMalformed ==
    /\ ipc = "loop"
    /\ IF idx = Len(event.entries)
         THEN /\ ipc' = "returned"
              /\ UNCHANGED <<idx, processed>>
         ELSE LET e == event.entries[idx + 1] IN
              IF e.ok
                THEN /\ idx' = idx + 1
                     /\ processed' = Append(processed, <<e.bucket, e.key>>)
                     /\ ipc' = "read"
                ELSE /\ idx' = idx + 1
                     /\ ipc' = "loop"
                     /\ UNCHANGED processed
    /\ UNCHANGED <<i_variant, event, content, ridx, attempts, table,
                   tableBefore, expected, stored, clean, failures>>
    /\ UNCHANGED <<simVars, gen>>

\* the for loop of lambda_handler takes the next entry and calls
\* process_s3_event; an entry lacking a key raises KeyError, which ends the
\* loop
NextEntry ==
    /\ ipc = "loop"
    /\ IF idx = Len(event.entries)
         THEN /\ ipc' = "returned"
              /\ UNCHANGED <<idx, processed>>
         ELSE LET e == event.entries[idx + 1] IN
              IF e.ok
                THEN /\ idx' = idx + 1
                     /\ processed' = Append(processed, <<e.bucket, e.key>>)
                     /\ ipc' = "read"
                ELSE /\ ipc' = "returned"
                     /\ UNCHANGED <<idx, processed>>
    /\ UNCHANGED <<i_variant, event, content, ridx, attempts, table,
                   tableBefore, expected, stored, clean, failures>>
    /\ UNCHANGED <<simVars, gen>>

\* process_s3_event calls read_s3_file; None or an empty array ends the call
ReadS3File ==
    /\ ipc = "read"
    /\ \E c \in Contents :
         /\ content' = c
         /\ expected' = expected \cup
                {KeyOf(c.records[i]) : i \in {j \in 1..Len(c.records) : c.records[j].ok}}
         /\ clean' = (clean /\ c.readable)
         /\ ipc' = IF c.readable /\ c.records # <<>> THEN "store" ELSE "loop"
    /\ ridx' = 0
    /\ attempts' = <<>>
    /\ tableBefore' = table
    /\ UNCHANGED <<i_variant, event, idx, processed, table, stored, failures>>
    /\ UNCHANGED <<simVars, gen>>

\* one store_in_dynamodb call of the loop of process_s3_event. A DynamoDB
\* error is caught in store_in_dynamodb; the KeyError of a record lacking a
\* key is caught only by process_s3_event, which ends the file.
StoreInDynamodb ==
    /\ ipc = "store"
    /\ LET r == content.records[ridx + 1] IN
       IF ~r.ok
         THEN /\ attempts' = Append(attempts,
                    [rec |-> r, res |-> "key_error", item |-> FormatItem(i_variant, r)])
              /\ clean' = FALSE
              /\ ipc' = "loop"
              /\ UNCHANGED <<ridx, table, stored, failures>>
         ELSE \E res \in {"ok"} \cup (IF failures < MaxFailures
                                        THEN {"boto_error"} ELSE {}) :
              /\ attempts' = Append(attempts,
                    [rec |-> r, res |-> res, item |-> FormatItem(i_variant, r)])
              /\ table' = IF res = "ok"
                            THEN PutItem(table, FormatItem(i_variant, r))
                            ELSE table
              /\ stored' = IF res = "ok" THEN stored \cup {KeyOf(r)} ELSE stored
              /\ failures' = IF res = "ok" THEN failures ELSE failures + 1
              /\ clean' = (clean /\ res = "ok")
              /\ ridx' = ridx + 1
              /\ ipc' = IF ridx + 1 = Len(content.records) THEN "loop" ELSE "store"
    /\ UNCHANGED <<i_variant, event, idx, processed, content, tableBefore,
                   expected>>
    /\ UNCHANGED <<simVars, gen>>

NextIngest ==
    \/ LambdaHandler
    \/ NextEntry
    \/ ReadS3File
    \/ StoreInDynamodb

SpecIngest == InitIngest /\ [][NextIngest]_vars

\* ------------------------------------------------------- derived notions
\* the sink calls made by the n-th _store_data call
CallsOf(n) == {i \in DOMAIN calls : calls[i].flush = n}

\* the sink calls the n-th _store_data call made to one sink
CallsTo(n, sink) == {i \in CallsOf(n) : calls[i].sink = sink}

\* the last _store_data call has returned (not raised) and nothing ran since
JustStored == pc \in {"restart", "done"} /\ flushNo > 0 /\ Len(flushEnd) = flushNo

\* the sinks this simulator writes to
Sinks == (IF local_enabled THEN {"local"} ELSE {}) \cup
         (IF s3_enabled THEN {"s3"} ELSE {})

TypeOK ==
    /\ variant \in {"cli", "lambda"}
    /\ stop_signal \in BOOLEAN
    /\ final \in BOOLEAN
    /\ Len(flushEnd) <= Len(flushPre)
    /\ Len(flushPre) <= Len(flushEnd) + 1

\* ------------------------------------------------------------------ claims

\* C1: when a flush fails at the sink (upload_json_data returns False),
\* data_feed after _store_data holds exactly the records it held before the
\* call.
C1_BufferKeptOnSinkFailure ==
    (JustStored /\ flushEnd[flushNo] = "failed") =>
        data_feed = flushPre[flushNo]

\* C2: once the cli loop has observed stop_signal, exactly one _store_data
\* call follows, also when data_feed is empty; no record is generated after
\* the observation and nothing runs after that call.
C2_OneFinalFlush ==
    (variant = "cli" /\ final) =>
        /\ pc \in {"store", "upload", "done", "crashed"}
        /\ nextId - 1 = exitAt.gens
        /\ (pc = "store" => flushNo = exitAt.flushes)
        /\ (pc # "store" => flushNo = exitAt.flushes + 1)

C2_Witness ==
    /\ variant = "cli" /\ final /\ pc = "done"
    /\ exitAt.feed = <<>> /\ exitAt.gens >= 1
    /\ flushNo = exitAt.flushes + 1

\* C3: the final _store_data hands every sink it calls exactly the records
\* data_feed held when the loop was left, in order; it calls a sink when there
\* is a record and a sink is enabled, every enabled sink when no sink call
\* raises, and no sink when there is no record; after it nothing runs.
C3_FinalBatch ==
    LET n == exitAt.flushes + 1 IN
    /\ final =>
         /\ \A i \in DOMAIN calls :
              calls[i].flush >= n =>
                  calls[i].flush = n /\ calls[i].batch = exitAt.feed
         /\ \A s \in {"local", "s3"} : Cardinality(CallsTo(n, s)) <= 1
         /\ Len(flushEnd) >= n => ~Running
    /\ (final /\ ~Running) =>
         /\ exitAt.feed = <<>> => CallsOf(n) = {}
         /\ (exitAt.feed # <<>> /\ Sinks # {}) => CallsOf(n) # {}
         /\ (exitAt.feed # <<>> /\ pc = "done") =>
                \A s \in Sinks : Cardinality(CallsTo(n, s)) = 1

C3_Witness ==
    /\ variant = "cli" /\ final /\ pc = "done"
    /\ Len(exitAt.feed) = 2
    /\ CallsOf(exitAt.flushes + 1) # {}

\* C4: after a _store_data call whose sink writes succeeded data_feed is
\* empty, and every batch it gave to a sink is data_feed as it was on entry:
\* same length, same records, same order, once per enabled sink.
C4_SuccessfulFlush ==
    /\ \A n \in DOMAIN flushEnd :
         flushEnd[n] = "ok" =>
            /\ \A i \in CallsOf(n) :
                  calls[i].res = "ok" /\ calls[i].batch = flushPre[n]
            /\ flushPre[n] # <<>> =>
                  \A s \in Sinks : Cardinality(CallsTo(n, s)) = 1
    /\ (JustStored /\ flushEnd[flushNo] = "ok") => data_feed = <<>>

C4_Witness ==
    /\ JustStored /\ pc = "restart" /\ flushEnd[flushNo] = "ok"
    /\ Len(flushPre[flushNo]) >= 2
    /\ CallsOf(flushNo) # {}

\* C5: no failure of a sink ends simulate_data with an exception.
C5_NoSinkExceptionEscapes == pc # "crashed"

\* C6: in the lambda variant, once SIGINT has set stop_signal the loop stops
\* generating at its next poll: at most the record of the iteration already
\* under way is appended after the signal.
C6_LambdaStopsOnSignal == variant = "lambda" => gensAfterStop <= 1

\* C7: after N generations with no _store_data in between data_feed holds
\* exactly the N records generated, each once, in generation order.
C7_BufferCountsGenerations ==
    /\ Len(data_feed) = sinceFlush
    /\ \A i \in DOMAIN data_feed : data_feed[i] = nextId - sinceFlush + i - 1

C7_Witness == variant = "cli" /\ sinceFlush >= 3 /\ flushNo >= 1

\* C8: with data_interval = 1 and file_interval = 3 polls, every sleep taking
\* exactly one poll and no sink call taking time, there is no flush before
\* the iteration at elapsed time 3, and when that iteration has finished
\* exactly one flush has occurred, of records 1, 2, 3, and data_feed is empty.
C8_ThreeTickScenario ==
    (variant = "cli" /\ data_interval = 1 /\ file_interval = 3
        /\ exact /\ ~final /\ Running) =>
        /\ (now < 3 \/ (now = 3 /\ pc \in {"check", "gen", "fcheck"})) =>
              flushNo = 0
        /\ (now = 3 /\ pc = "sleep") =>
              /\ flushNo = 1 /\ Len(flushEnd) = 1
              /\ flushPre[1] = <<1, 2, 3>>
              /\ \A i \in DOMAIN calls : calls[i].batch = <<1, 2, 3>>
              /\ data_feed = <<>>

C8_Witness ==
    /\ variant = "cli" /\ data_interval = 1 /\ file_interval = 3
    /\ exact /\ ~final /\ now = 3 /\ pc = "sleep"
    /\ flushNo = 1 /\ calls # <<>>

\* C9: a record is part of at most one batch handed to a given sink, and
\* occurs at most once in a batch, whether the sink call succeeded or failed.
C9_AtMostOnce ==
    /\ \A i, j \in DOMAIN calls :
         (i < j /\ calls[i].sink = calls[j].sink) =>
             Range(calls[i].batch) \cap Range(calls[j].batch) = {}
    /\ \A i \in DOMAIN calls :
         \A a, b \in DOMAIN calls[i].batch :
             a # b => calls[i].batch[a] # calls[i].batch[b]

C9_Witness ==
    \E i, j \in DOMAIN calls :
        /\ i < j /\ calls[i].sink = calls[j].sink
        /\ calls[i].res = "client_error"
        /\ calls[i].batch # <<>> /\ calls[j].batch # <<>>

\* a _store_data call that found data_feed empty is under way
EmptyFlushInProgress ==
    \/ pc \in {"store", "l_store"} /\ data_feed = <<>>
    \/ pc = "upload" /\ flushPre[flushNo] = <<>>

\* C10: a _store_data call on an empty data_feed calls no sink, takes no
\* sink time, does not raise and leaves data_feed empty, so that any number
\* of such calls in a row leaves the buffer and the sinks as one does.
C10_EmptyFlushNoOp ==
    [][EmptyFlushInProgress =>
          /\ calls' = calls
          /\ data_feed' = <<>>
          /\ now' = now
          /\ pc' # "crashed"]_vars

C10_Witness ==
    \E n \in DOMAIN flushEnd :
        /\ n + 1 \in DOMAIN flushEnd
        /\ flushPre[n] = <<>> /\ flushPre[n + 1] = <<>>
        /\ CallsOf(n) = {} /\ CallsOf(n + 1) = {}
        /\ Sinks # {}

\* the positions at which simulate_data itself assigns or appends to data_feed
FeedWriters == {"start", "gen", "upload", "l_gen", "l_store"}

\* C11: a step that changes stop_signal sets it to True and changes neither
\* data_feed nor the loop's clock readings and position; stop_signal never
\* goes back to False; data_feed changes only in a step of the loop.
C11_HandlerOnlySetsFlag ==
    [][/\ stop_signal' # stop_signal =>
            /\ stop_signal' = TRUE
            /\ UNCHANGED <<data_feed, start_time, last_data_time,
                           current_time, now, pc, final, nextId, calls>>
       /\ stop_signal => stop_signal'
       /\ data_feed' # data_feed =>
            /\ pc \in FeedWriters
            /\ pc' # pc
            /\ stop_signal' = stop_signal]_vars

C11_Witness == stop_signal /\ Len(data_feed) >= 2 /\ pc = "sleep"

\* C12: in the lambda variant the final _store_data starts while the
\* remaining time of the budget is still greater than 0.
C12_StoreBeforeBudgetEnds ==
    (variant = "lambda" /\ pc = "l_store") =>
        RemainingTime(has_context, deadline, now, start_time) > 0

\* C17: once stop_signal is set the cli simulate_data ends by returning after
\* the final flush attempt, never by an exception of a sink.
C17_ExitsWithoutCrash == (variant = "cli" /\ stop_signal) => pc # "crashed"

\* the part of C17 that the code keeps: under FairSpec the run ends
C17_EventuallyEnds == (variant = "cli" /\ stop_signal) ~> ~Running

\* C18: a periodic flush begins only at a poll whose clock reading is at
\* least file_interval after the start of the loop or the return of the
\* previous _store_data, every such poll begins one, and the loop's timer is
\* that moment of return.
C18_FlushTiming ==
    variant = "cli" =>
        /\ pc \notin {"restart", "done"} => start_time = lastReturn
        /\ (pc = "store" /\ ~final) =>
              /\ current_time - lastReturn >= file_interval
              /\ now - lastReturn >= file_interval
        /\ (pc = "sleep" /\ ~iter.flushed) =>
              current_time - lastReturn < file_interval

C18_Witness ==
    /\ variant = "cli" /\ pc = "store" /\ ~final
    /\ flushNo >= 1 /\ file_interval >= 2
    /\ lastReturn > flushNo * file_interval
    /\ now - lastReturn = file_interval

\* a periodic _store_data call is under way
PeriodicFlushInProgress == variant = "cli" /\ ~final /\ pc \in {"store", "upload"}

\* C19: the record generated in an iteration that also flushes is in that
\* flush's batch; while a _store_data call is under way nothing is generated
\* and data_feed is only emptied; after an iteration that flushed data_feed
\* is empty.
C19_GenerateThenBlockingFlush ==
    /\ [](/\ (variant = "cli" /\ ~final /\ pc \in {"upload", "restart"}
                 /\ iter.gen # 0) =>
               /\ iter.gen \in Range(flushPre[flushNo])
               /\ \A i \in CallsOf(flushNo) : iter.gen \in Range(calls[i].batch)
          /\ (variant = "cli" /\ pc = "sleep" /\ iter.flushed) =>
               data_feed = <<>>)
    /\ [][PeriodicFlushInProgress =>
             /\ nextId' = nextId
             /\ data_feed' = data_feed \/ data_feed' = <<>>]_vars

C19_Witness ==
    /\ variant = "cli" /\ ~final /\ pc = "sleep" /\ iter.flushed
    /\ iter.gen # 0
    /\ Len(flushPre[flushNo]) >= 2
    /\ iter.gen = flushPre[flushNo][Len(flushPre[flushNo])]
    /\ CallsOf(flushNo) # {}
    /\ flushEnd[flushNo] = "ok"

\* the records appended since SIGINT set stop_signal
AppendedAfterStop == (nextId - gensAfterStop)..(nextId - 1)

\* the periodic _store_data calls begun since SIGINT set stop_signal
PeriodicAfterStop ==
    (IF final THEN exitAt.flushes ELSE flushNo) - flushNoAtStop

\* C20: after SIGINT has set stop_signal the cli loop appends at most one more
\* record and begins at most one more periodic flush, and when simulate_data
\* has ended every record appended after the signal was in the batch of a
\* later _store_data call, handed to every enabled sink when it returned.
C20_SignalRace ==
    (variant = "cli" /\ stop_signal) =>
        /\ gensAfterStop <= 1
        /\ PeriodicAfterStop <= 1
        /\ ~Running =>
              \A id \in AppendedAfterStop :
                  \E n \in DOMAIN flushPre :
                      n > flushNoAtStop /\ id \in Range(flushPre[n])
        /\ pc = "done" =>
              \A id \in AppendedAfterStop : \A s \in Sinks :
                  \E i \in DOMAIN calls :
                      calls[i].sink = s /\ id \in Range(calls[i].batch)

C20_Witness ==
    /\ variant = "cli" /\ stop_signal /\ pc = "done"
    /\ gensAfterStop = 1 /\ PeriodicAfterStop = 1
    /\ Sinks # {}

\* the field of a record is within [lo, hi] kWh, or, when fault injection
\* fired for it, strictly negative and not below -2 kWh
FieldAsClaimed(value, fired, lo, hi) ==
    IF fired THEN -2000 <= value /\ value < 0
             ELSE lo * 1000 <= value /\ value <= hi * 1000

\* C13: every record generate_data returns has energy_generated_kwh in
\* [10, 200] and energy_consumed_kwh in [5, 180], except a field for which
\* fault injection fired, which is strictly negative and not below -2.
C13_GeneratedRanges ==
    gen.at = "returned" =>
        LET lam == gen.variant = "lambda" IN
        /\ FieldAsClaimed(gen.rec.energy_generated_kwh,
                          lam /\ FaultFires(gen.draws.pg), 10, 200)
        /\ FieldAsClaimed(gen.rec.energy_consumed_kwh,
                          lam /\ FaultFires(gen.draws.pc), 5, 180)

\* C14: for every input record, the item store_in_dynamodb puts has the
\* record's site_id, timestamp, energy_generated_kwh and energy_consumed_kwh,
\* a net_energy_kwh of generated minus consumed rounded to 2 decimals, and
\* anomaly true exactly when generated < 0 or consumed < 0, in both variants.
C14_ItemFields ==
    \A i \in 1..Len(attempts) :
        LET r == attempts[i].rec
            item == attempts[i].item
        IN  r.ok =>
              /\ item.site_id = r.site_id
              /\ item.timestamp = r.timestamp
              /\ item.energy_generated_kwh = r.energy_generated_kwh
              /\ item.energy_consumed_kwh = r.energy_consumed_kwh
              /\ item.net_energy_kwh =
                    Round2(r.energy_generated_kwh - r.energy_consumed_kwh)
              /\ item.anomaly <=>
                    (r.energy_generated_kwh < 0 \/ r.energy_consumed_kwh < 0)

\* process_s3_event has returned from a file
FileDone == ipc \in {"loop", "returned"} /\ idx >= 1

DistinctKeys(recs) ==
    \A i, j \in 1..Len(recs) : KeyOf(recs[i]) = KeyOf(recs[j]) => i = j

NoStoreFailed == \A i \in 1..Len(attempts) : attempts[i].res = "ok"

\* C15: after process_s3_event on an object holding an array of N records
\* with pairwise distinct (site_id, timestamp), from an empty table and with
\* no store failing, the table holds exactly N items, one per record.
C15_OneItemPerRecord ==
    (/\ FileDone
     /\ content.readable
     /\ tableBefore = {}
     /\ DistinctKeys(content.records)
     /\ NoStoreFailed) =>
        /\ Cardinality(table) = Len(content.records)
        /\ \A i \in 1..Len(content.records) :
              FormatItem(i_variant, content.records[i]) \in table

C15_Witness ==
    /\ FileDone
    /\ content.readable
    /\ tableBefore = {}
    /\ DistinctKeys(content.records)
    /\ NoStoreFailed
    /\ Len(content.records) = 2
    /\ Cardinality(table) = 2

WellFormedEvent ==
    /\ event.has_records
    /\ \A i \in 1..Len(event.entries) : event.entries[i].ok

HasKey(t, k) == \E item \in t : KeyOf(item) = k

\* process_s3_event has been called once for each of the first idx entries,
\* in order, with the entry's bucket name and object key
CalledInOrder ==
    processed = [i \in 1..idx |->
                    <<event.entries[i].bucket, event.entries[i].key>>]

HandedTo(n) == UNION {Range(calls[i].batch) : i \in CallsOf(n)}

\* C21: for every combination of local_enabled and s3_enabled the cli
\* constructor accepts, every record a _store_data call removes from
\* data_feed was handed to at least one sink in that call.
C21_NoSilentDiscard ==
    (variant = "cli" /\ JustStored) =>
        \A r \in Range(flushPre[flushNo]) :
            r \notin Range(data_feed) => r \in HandedTo(flushNo)

\* C22: process_s3_event never raises and attempts every record of the file
\* exactly once, in file order, whatever happened to the earlier records (a
\* DynamoDB error or a malformed record); when the file cannot be read,
\* nothing is stored and the table is unchanged.
C22_EveryRecordAttempted ==
    FileDone =>
        IF content.readable
          THEN /\ Len(attempts) = Len(content.records)
               /\ \A i \in 1..Len(attempts) :
                     attempts[i].rec = content.records[i]
          ELSE attempts = <<>> /\ table = tableBefore

\* the entries lambda_handler reaches before the first one lacking a key
EntriesBeforeMalformed ==
    LET bad == {i \in 1..Len(event.entries) : ~event.entries[i].ok} IN
    IF bad = {} THEN Len(event.entries)
    ELSE (CHOOSE i \in bad : \A j \in bad : i <= j) - 1

\* C23: lambda_handler returns normally for every event, also one without
\* "Records" or with an entry lacking the s3 / bucket / object keys: the
\* entries before the malformed one have been processed, the malformed entry
\* and all entries after it have not.
C23_StopsAtMalformedEntry ==
    /\ ipc \in {"off", "start", "loop", "read", "store", "returned"}
    /\ ipc = "returned" =>
          /\ Len(processed) = EntriesBeforeMalformed
          /\ \A i \in 1..Len(processed) :
                processed[i] = <<event.entries[i].bucket, event.entries[i].key>>
          /\ ~event.has_records => processed = <<>> /\ table = {}

C23_Witness ==
    /\ ipc = "returned"
    /\ Len(event.entries) = 2
    /\ event.entries[1].ok
    /\ ~event.entries[2].ok
    /\ processed = <<<<event.entries[1].bucket, event.entries[1].key>>>>
    /\ table # {}

====
